---- MODULE Spec2Model ----
(***************************************************************************)
(* A model of src/idb.js: the request-to-promise bridge                    *)
(* (handleIDBRequest), the single-shot operations built on it, the batch   *)
(* writer (putAllItems) and the prelude of the cursor                      *)
(* (iterateObjectStore), running against an IndexedDB transaction.         *)
(*                                                                         *)
(* One behaviour is one call of one exported function.  The listeners the  *)
(* code registers are state (lsn, itemLsn); an engine event is one action  *)
(* that runs, atomically, the listeners registered for it, as one turn of  *)
(* the event loop does.  The engine follows IndexedDB: a transaction with  *)
(* no pending request starts committing on its own, abort() on a           *)
(* transaction that is committing or finished throws InvalidStateError,    *)
(* an aborted transaction fires error (AbortError) at each pending request *)
(* and then abort at itself.                                               *)
(***************************************************************************)
EXTENDS Naturals, Sequences, FiniteSets

\* The largest batch handed to putAllItems.
MaxItems == 3

\* The most rows a scanned store holds.
MaxRows == 3

\* The high water mark of a ReadableStream built without a queuing strategy.
HighWaterMark == 1

VARIABLES
    api,           \* the exported function that was called ("none": not yet)
    malformed,     \* the call's arguments fail the function's type tests
    nItems,        \* putAllItems: items.length (0 for the other calls)
    sig,           \* the caller's AbortSignal: [given, aborted], and where the
                   \* call stood when it aborted: [txAt, pendingAt, streamAt]
    passedSignal,  \* the caller's signal was composed with the controller's
                   \* (handed to handleIDBRequest, or to the cursor)
    ctrl,          \* the coordinator's own AbortController: [aborted, reason]
    promise,       \* the promise returned to the caller
    tx,            \* the transaction: [state, mode, error]
    reqs,          \* the requests issued on tx: Seq of [state, effect, key, error,
                   \* at], at: its place in the order the successes were fired
    lsn,           \* listeners bound to the controller's signal
    itemLsn,       \* putAllItems: per request, its listeners (reqController)
    itemPromises,  \* putAllItems: the promises array
    store,         \* the keys of the committed rows
    staged,        \* the rows as the transaction sees them
    opened,        \* transactions the call opened
    issued,        \* requests the call issued
    settleCalls,   \* calls of the returned promise's resolve / reject
    abortCalls,    \* calls of IDBTransaction.abort() by this layer
    abortThrows,   \* of those, the calls that threw InvalidStateError
    commitCalls,   \* calls of IDBTransaction.commit() by this layer
    scan,          \* iterateObjectStore: the stream, its consumer and the
                   \* success listener's suspended continuation
    effective,     \* the signal the bridge and the cursor register their
                   \* listeners with: AbortSignal.any([signal,
                   \* controller.signal]), or controller.signal alone:
                   \* [made, aborted, reason]
    helper,        \* the last direct call of a synchronous helper and what
                   \* it gave: [fn, x, opt, ret, threw, calls]
    db,            \* the database's schema: [upgrading, names, indexes]
    other          \* a second call, of handleIDBRequest, with a request,
                   \* a transaction and a signal of its own, under way on
                   \* the same database: [called, req, sig, cur]

vars == <<api, malformed, nItems, sig, passedSignal, ctrl, promise, tx, reqs, lsn, itemLsn,
          itemPromises, store, staged, opened, issued, settleCalls,
          abortCalls, abortThrows, commitCalls, scan, effective,
          helper, db, other>>

-----------------------------------------------------------------------------
\* Values

Pending == [state |-> "pending", value |-> <<>>, error |-> "none"]
Resolved(v) == [state |-> "resolved", value |-> v, error |-> "none"]
Rejected(e) == [state |-> "rejected", value |-> <<>>, error |-> e]

NoTx == [state |-> "none", mode |-> "none", error |-> "none"]
\* A transaction opened read-only whatever mode is asked for.
NewTxReadOnly(mode) == [state |-> "active", mode |-> "readonly", error |-> "none"]

\* db.transaction(storeName, mode, { durability }).
NewTx(mode) == [state |-> "active", mode |-> mode, error |-> "none"]
NewReq(effect, key) ==
    [state |-> "pending", effect |-> effect, key |-> key, error |-> "none",
     at |-> 0]

\* The names a caller gives object stores and indexes.
StoreNames == {"a", "b"}
IndexNames == {"i", "j"}

\* No helper called yet; a database without object stores, not upgrading.
NoHelper ==
    [fn |-> "none", x |-> "none", opt |-> [kind |-> "undefined", names |-> {}],
     ret |-> "none", threw |-> FALSE, calls |-> 0]
NoDb == [upgrading |-> FALSE, names |-> {},
         indexes |-> [n \in StoreNames |-> {}]]

\* No effective signal yet, and the one the code makes.
NoSignal == [made |-> FALSE, aborted |-> FALSE, reason |-> "none"]
NewSignal == [made |-> TRUE, aborted |-> FALSE, reason |-> "none"]

\* The cursor's side of the state.  mode: the mode the caller asked for;
\* n: the rows the scan matches; pos: the
\* rows the engine has produced; stream: the ReadableStream's state, with
\* its stored error, its queue and its close request; consumer: "reading"
\* (a next() is pending), "idle" (it holds a row), "done", "failed",
\* "stopped", "stopFailed"; got: the rows handed to the consumer; deferred:
\* the listener's deferred; awaiting: the listener's continuation, "blocked"
\* on the deferred or "queued" as a microtask; inCallback: that microtask
\* runs inside the dispatch of the success event; pulledSince: pull() was
\* invoked since the last success notification; continues, continueThrows:
\* the calls of continue() and those that threw; cancelled: the stream's
\* cancel callback ran; cut: pos, got and continues when the stream was
\* errored or cancelled.
NoScan ==
    [mode |-> "none", n |-> 0, pos |-> 0, stream |-> "none", error |-> "none",
     queue |-> 0,
     closeRequested |-> FALSE, consumer |-> "none", got |-> 0,
     deferred |-> "none", awaiting |-> "none", inCallback |-> FALSE,
     pulledSince |-> FALSE, continues |-> 0, continueThrows |-> 0,
     cancelled |-> FALSE, cut |-> [pos |-> 0, got |-> 0, continues |-> 0]]

\* The scan as the ReadableStream's constructor leaves it: readable, empty.
NewScan(n) ==
    [NoScan EXCEPT !.n = n, !.stream = "readable"]

\* The row every store holds before the call.
OldRows == {0}

\* The state the code's listeners read and write, as one record.
Cur ==
    [promise |-> promise, ctrl |-> ctrl, lsn |-> lsn, itemLsn |-> itemLsn,
     itemPromises |-> itemPromises, tx |-> tx, settleCalls |-> settleCalls,
     abortCalls |-> abortCalls, abortThrows |-> abortThrows,
     commitCalls |-> commitCalls, scan |-> scan, effective |-> effective,
     threw |-> FALSE, ret |-> "none"]

SetCur(s) ==
    /\ promise' = s.promise
    /\ ctrl' = s.ctrl
    /\ lsn' = s.lsn
    /\ itemLsn' = s.itemLsn
    /\ itemPromises' = s.itemPromises
    /\ tx' = s.tx
    /\ settleCalls' = s.settleCalls
    /\ abortCalls' = s.abortCalls
    /\ abortThrows' = s.abortThrows
    /\ commitCalls' = s.commitCalls
    /\ scan' = s.scan
    /\ effective' = s.effective

Set(s) == SetCur(s) /\ UNCHANGED <<helper, db, other>>

\* The state of a call before it is made.
InitCur ==
    [promise |-> Pending, ctrl |-> [aborted |-> FALSE, reason |-> "none"],
     lsn |-> {}, itemLsn |-> <<>>, itemPromises |-> <<>>, tx |-> NoTx,
     settleCalls |-> 0, abortCalls |-> 0, abortThrows |-> 0,
     commitCalls |-> 0, scan |-> NoScan, effective |-> NoSignal,
     threw |-> FALSE, ret |-> "none"]

\* The second call before it is made; its signal is not the first call's.
NoOther ==
    [called |-> FALSE, req |-> "none",
     sig |-> [given |-> TRUE, aborted |-> FALSE], cur |-> InitCur]

\* What a handler leaves behind once it has returned or thrown.
Settled(s) == [s EXCEPT !.threw = FALSE, !.ret = "none"]

-----------------------------------------------------------------------------
\* Platform primitives

\* resolve(v) of Promise.withResolvers(): takes effect on a pending promise only.
resolve(s, v) ==
    [s EXCEPT !.promise = IF @.state = "pending" THEN Resolved(v) ELSE @,
              !.settleCalls = @ + 1]

\* reject(e) of Promise.withResolvers().
reject(s, e) ==
    [s EXCEPT !.promise = IF @.state = "pending" THEN Rejected(e) ELSE @,
              !.settleCalls = @ + 1]

\* controller.abort(reason): the first call sets the reason and removes every
\* listener registered with { signal: controller.signal } or with
\* AbortSignal.any([passedSignal, controller.signal]).
controllerAbort(s, reason) ==
    IF s.ctrl.aborted THEN s
    ELSE [s EXCEPT !.ctrl = [aborted |-> TRUE, reason |-> reason],
                   !.effective = IF @.made /\ ~@.aborted
                                 THEN [@ EXCEPT !.aborted = TRUE,
                                                !.reason = reason]
                                 ELSE @,
                   !.lsn = {}]

\* IDBTransaction.abort(): throws InvalidStateError unless the transaction
\* is still active.
IDBTransactionAbort(s) ==
    IF s.tx.state = "active"
    THEN [s EXCEPT !.tx.state = "aborting", !.abortCalls = @ + 1]
    ELSE [s EXCEPT !.abortCalls = @ + 1, !.abortThrows = @ + 1,
                   !.threw = TRUE]

\* IDBTransaction.commit(): throws InvalidStateError unless active.
IDBTransactionCommit(s) ==
    IF s.tx.state = "active"
    THEN [s EXCEPT !.tx.state = "committing", !.commitCalls = @ + 1]
    ELSE [s EXCEPT !.commitCalls = @ + 1, !.threw = TRUE]

\* request.transaction: null for a request that has no transaction.
TransactionOf(s) == IF s.tx.mode = "none" THEN "null" ELSE "transaction"

-----------------------------------------------------------------------------
\* commitTransaction / abortTransaction.  The argument x is what the caller
\* passes: "request", "transaction", "null", or "reason" (an abort reason,
\* which is neither an IDBRequest nor an IDBTransaction).  ret is what the
\* call returns ("none" while it has not returned, as when it throws).

commitTransactionOfTx(s, x) ==
    IF x = "transaction" /\ s.tx.mode # "readonly"
    THEN LET s1 == IDBTransactionCommit(s)
         IN  IF s1.threw THEN s1 ELSE [s1 EXCEPT !.ret = "true"]
    ELSE [s EXCEPT !.ret = "false"]

commitTransaction(s, x) ==
    IF x = "request"
    THEN commitTransactionOfTx(s, TransactionOf(s))
    ELSE commitTransactionOfTx(s, x)

abortTransactionOfTx(s, x) ==
    IF x = "transaction" /\ s.tx.mode # "readonly"
    THEN LET s1 == IDBTransactionAbort(s)
         IN  IF s1.threw THEN s1 ELSE [s1 EXCEPT !.ret = "true"]
    ELSE [s EXCEPT !.ret = "false"]

abortTransaction(s, x) ==
    IF x = "request"
    THEN abortTransactionOfTx(s, TransactionOf(s))
    ELSE abortTransactionOfTx(s, x)

-----------------------------------------------------------------------------
\* handleIDBRequest

\* The two listeners on the request, registered with the composed signal.
RequestListeners == {"request.success", "request.error"}

\* A success listener that also commits, as commitTransaction(target) would.
onRequestSuccessCommitting(s, result) ==
    commitTransaction(
        controllerAbort(
            resolve([s EXCEPT !.lsn = @ \ {"request.success"}], result),
            "AbortError"),
        "request")

\* A success listener that resolves and leaves the controller alone.
onRequestSuccessKeepsListeners(s, result) ==
    resolve([s EXCEPT !.lsn = @ \ {"request.success"}], result)

\* The success listener: resolve(target.result); controller.abort().
onRequestSuccess(s, result) ==
    controllerAbort(
        resolve([s EXCEPT !.lsn = @ \ {"request.success"}], result),
        "AbortError")

\* An error listener that leaves the transaction alone.
onRequestErrorNoAbort(s, err) ==
    reject(controllerAbort([s EXCEPT !.lsn = @ \ {"request.error"}], err), err)

\* The error listener: abortTransaction(target.transaction);
\* controller.abort(target.error); reject(target.error).  An exception
\* thrown by abort() leaves the listener before the last two statements.
onRequestError(s, err) ==
    LET a == abortTransaction([s EXCEPT !.lsn = @ \ {"request.error"}],
                              TransactionOf(s))
    IN  IF a.threw THEN a ELSE reject(controllerAbort(a, err), err)

\* The abort listener on passedSignal: reject(target.reason);
\* abortTransaction(target.reason).
onPassedSignalAbort(s) ==
    abortTransaction(
        reject([s EXCEPT !.lsn = @ \ {"passedSignal.abort"}], "SignalReason"),
        "reason")

\* A bridge that listens for errors on the request's database, where the
\* errors of every request on it arrive.
handleIDBRequestOnDatabase(s, isRequest, passed, aborted, registerThrows) ==
    IF ~isRequest THEN reject(s, "TypeError")
    ELSE IF passed /\ aborted THEN reject(s, "SignalReason")
    ELSE IF passed /\ registerThrows
    THEN abortTransaction(
             controllerAbort([reject(s, "RegisterError")
                                  EXCEPT !.effective = NewSignal],
                             "RegisterError"),
             TransactionOf(s))
    ELSE [s EXCEPT !.lsn = {"request.success", "database.error"}
                           \cup (IF passed THEN {"passedSignal.abort"} ELSE {}),
                   !.effective = NewSignal]

\* A bridge that tests the signal before it tests the request.
handleIDBRequestSignalFirst(s, isRequest, passed, aborted, registerThrows) ==
    IF passed /\ aborted THEN reject(s, "SignalReason")
    ELSE IF ~isRequest THEN reject(s, "TypeError")
    ELSE IF passed /\ registerThrows
    THEN abortTransaction(
             controllerAbort(reject(s, "RegisterError"), "RegisterError"),
             TransactionOf(s))
    ELSE [s EXCEPT !.lsn = RequestListeners
                           \cup (IF passed THEN {"passedSignal.abort"} ELSE {})]

\* A bridge that does not test passedSignal.aborted before it subscribes.
handleIDBRequestNoAbortedTest(s, isRequest, passed, aborted, registerThrows) ==
    IF ~isRequest THEN reject(s, "TypeError")
    ELSE IF passed /\ registerThrows
    THEN abortTransaction(
             controllerAbort(reject(s, "RegisterError"), "RegisterError"),
             TransactionOf(s))
    ELSE [s EXCEPT !.lsn = RequestListeners
                           \cup (IF passed THEN {"passedSignal.abort"} ELSE {})]

\* handleIDBRequest(request, { signal }).  isRequest: request instanceof
\* IDBRequest; passed: a signal was handed in; registerThrows: the try block
\* throws (AbortSignal.any is not there) before a listener is registered.
handleIDBRequest(s, isRequest, passed, aborted, registerThrows) ==
    IF ~isRequest THEN reject(s, "TypeError")
    ELSE IF passed /\ aborted THEN reject(s, "SignalReason")
    ELSE IF passed /\ registerThrows
    THEN abortTransaction(
             controllerAbort([reject(s, "RegisterError")
                                  EXCEPT !.effective = NewSignal],
                             "RegisterError"),
             TransactionOf(s))
    ELSE [s EXCEPT !.lsn = RequestListeners
                           \cup (IF passed THEN {"passedSignal.abort"} ELSE {}),
                   !.effective = NewSignal]

-----------------------------------------------------------------------------
\* The single-shot operations

Ops == {"clearStore", "getItem", "getAllItems", "putItem", "addItem",
        "deleteItem", "count", "getAllKeys"}

\* Per operation: whether it tests signal.aborted before it opens the
\* transaction, the mode of the transaction, whether it hands the signal on
\* to handleIDBRequest, and what its request does to the rows.
OpInfo(op) ==
    CASE op = "clearStore" ->
           [checks |-> FALSE, mode |-> "readwrite", passes |-> TRUE,
            effect |-> "clear", key |-> 0]
      [] op = "getItem" ->
           [checks |-> TRUE, mode |-> "readonly", passes |-> TRUE,
            effect |-> "read", key |-> 0]
      [] op = "getAllItems" ->
           [checks |-> TRUE, mode |-> "readonly", passes |-> FALSE,
            effect |-> "read", key |-> 0]
      [] op = "putItem" ->
           [checks |-> TRUE, mode |-> "readwrite", passes |-> FALSE,
            effect |-> "put", key |-> 1]
      [] op = "addItem" ->
           [checks |-> TRUE, mode |-> "readwrite", passes |-> FALSE,
            effect |-> "put", key |-> 1]
      [] op = "deleteItem" ->
           [checks |-> TRUE, mode |-> "readwrite", passes |-> FALSE,
            effect |-> "delete", key |-> 0]
      [] op = "count" ->
           [checks |-> TRUE, mode |-> "readonly", passes |-> FALSE,
            effect |-> "read", key |-> 0]
      [] op = "getAllKeys" ->
           [checks |-> TRUE, mode |-> "readonly", passes |-> TRUE,
            effect |-> "read", key |-> 0]

\* What a request's success does to the rows the transaction sees.
Effect(rows, r) ==
    CASE r.effect = "put" -> rows \cup {r.key}
      [] r.effect = "delete" -> rows \ {r.key}
      [] r.effect = "clear" -> {}
      [] OTHER -> rows

-----------------------------------------------------------------------------
\* putAllItems

\* A chain of tests that sends the empty array on to the batch.
putAllItemsGuardNoEmptyTest(isArray, n, given, aborted) ==
    IF ~isArray THEN "TypeError"
    ELSE IF n = 1 THEN "putItem"
    ELSE IF given /\ aborted THEN "SignalReason"
    ELSE "batch"

\* The tests made before the batch, in the order of the code: items is no
\* array; one item (handed to putItem); the signal is aborted; no item.
putAllItemsGuard(isArray, n, given, aborted) ==
    IF ~isArray THEN "TypeError"
    ELSE IF n = 1 THEN "putItem"
    ELSE IF given /\ aborted THEN "SignalReason"
    ELSE IF n = 0 THEN "empty"
    ELSE "batch"

\* The listeners on the transaction and on the caller's signal, all
\* registered with { once: true, signal: controller.signal }.
BatchListeners(given) ==
    {"transaction.error", "transaction.abort", "transaction.complete"}
        \cup (IF given THEN {"signal.abort"} ELSE {})

\* The keys of the item promises, in the order of the promises array.
KeysOf(ps) == [i \in 1..Len(ps) |-> ps[i].value[1]]

\* A per-item success listener that fills the promises array in the order
\* the successes arrive.
onItemSuccessInArrivalOrder(s, i, result) ==
    LET free == {j \in 1..Len(s.itemPromises) :
                     s.itemPromises[j].state = "pending"}
        k == IF free = {} THEN i ELSE CHOOSE j \in free : \A h \in free : j <= h
    IN  [s EXCEPT !.itemPromises[k] = IF @.state = "pending"
                                      THEN Resolved(result) ELSE @,
                  !.itemLsn[i] = {}]

\* The per-item success listener: resolve(target.result) of the item's own
\* promise; reqController.abort().
onItemSuccess(s, i, result) ==
    [s EXCEPT !.itemPromises[i] = IF @.state = "pending" THEN Resolved(result)
                                  ELSE @,
              !.itemLsn[i] = {}]

\* The per-item error listener.  Its reject is the one declared inside the
\* loop, the item promise's: reject(target.error);
\* reqController.abort(target.error); controller.abort(target.error);
\* transaction.abort().
onItemError(s, i, err) ==
    IDBTransactionAbort(
        controllerAbort(
            [s EXCEPT !.itemPromises[i] = IF @.state = "pending"
                                          THEN Rejected(err) ELSE @,
                      !.itemLsn[i] = {}],
            err))

\* The error listener on the transaction, reached when a request's error
\* bubbles: controller.abort(target.error); reject(target.error);
\* target.abort().  target is the request the error was fired at, which has
\* no abort method: the last statement throws a TypeError.
onTransactionError(s, err) ==
    [reject(controllerAbort([s EXCEPT !.lsn = @ \ {"transaction.error"}], err),
            err)
        EXCEPT !.threw = TRUE]

\* The abort listener on the transaction: controller.abort(target.error);
\* reject(target.error).
onTransactionAbort(s, err) ==
    reject(controllerAbort([s EXCEPT !.lsn = @ \ {"transaction.abort"}], err),
           err)

\* The complete listener:
\* Promise.all(promises).then(resolve, reject).finally(() => controller.abort()).
onTransactionComplete(s) ==
    LET s1 == [s EXCEPT !.lsn = @ \ {"transaction.complete"}]
        ps == s.itemPromises
        bad == {i \in 1..Len(ps) : ps[i].state = "rejected"}
        first == CHOOSE i \in bad : \A j \in bad : i <= j
    IN  IF \A i \in 1..Len(ps) : ps[i].state = "resolved"
        THEN controllerAbort(resolve(s1, KeysOf(ps)), "AbortError")
        ELSE IF bad # {}
        THEN controllerAbort(reject(s1, ps[first].error), "AbortError")
        ELSE s1

\* The abort listener on the caller's signal: reject(target.reason);
\* controller.abort(target.reason); transaction.abort().
onSignalAbort(s) ==
    IDBTransactionAbort(
        controllerAbort(
            reject([s EXCEPT !.lsn = @ \ {"signal.abort"}], "SignalReason"),
            "SignalReason"))

\* The catch block around the loop: controller.abort(err); reject(err).
onPutThrows(s, err) == reject(controllerAbort(s, err), err)

\* The loop over the items: one put per item, with its own promise and
\* listeners.  throwAt: the item whose put throws synchronously (0: none);
\* the loop ends there, in the catch block.
putLoop(s, n, throwAt) ==
    LET m == IF throwAt = 0 THEN n ELSE throwAt - 1
        s1 == [s EXCEPT !.itemPromises = [i \in 1..m |-> Pending],
                        !.itemLsn = [i \in 1..m |-> {"success", "error"}]]
    IN  IF throwAt = 0 THEN s1 ELSE onPutThrows(s1, "DataError")

\* A loop that goes on issuing puts after one of them threw.
putRequestsPastThrow(n, throwAt) == [i \in 1..n |-> NewReq("put", i)]

\* The requests the loop issued.
putRequests(n, throwAt) ==
    [i \in 1..(IF throwAt = 0 THEN n ELSE throwAt - 1) |-> NewReq("put", i)]

-----------------------------------------------------------------------------
\* iterateObjectStore: the tests made before the transaction is opened.
\* dbKind: "db" (an IDBDatabase), "openRequest" (an IDBOpenDBRequest, whose
\* result is taken as the database), "other".

\* A chain of tests that looks at the signal first.
iterateGuardSignalFirst(dbKind, nameOk, given, aborted) ==
    IF given /\ aborted THEN "SignalReason"
    ELSE IF dbKind = "other" THEN "TypeError"
    ELSE IF ~nameOk THEN "TypeError"
    ELSE "ok"

\* The tests in the order of the code: db, storeName, then the signal.
iterateGuard(dbKind, nameOk, given, aborted) ==
    IF dbKind = "other" THEN "TypeError"
    ELSE IF ~nameOk THEN "TypeError"
    ELSE IF given /\ aborted THEN "SignalReason"
    ELSE "ok"

-----------------------------------------------------------------------------
\* iterateObjectStore: the ReadableStream and the listeners start() registers

\* The listeners registered with AbortSignal.any([signal, abrt.signal]).
CursorListeners ==
    {"cursor.tx.abort", "cursor.tx.error", "cursor.success", "cursor.error"}

\* What the scan has done so far, kept when the stream is errored or
\* cancelled.
CutOf(s) ==
    [pos |-> s.scan.pos, got |-> s.scan.got, continues |-> s.scan.continues]

\* controller.error(e): on a readable stream, stores the error, empties the
\* queue and rejects the pending read; otherwise does nothing.
streamError(s, err) ==
    IF s.scan.stream # "readable" THEN s
    ELSE [s EXCEPT !.scan.stream = "errored",
                   !.scan.error = err,
                   !.scan.queue = 0,
                   !.scan.consumer = IF @ = "reading" THEN "failed" ELSE @,
                   !.scan.cut = CutOf(s)]

\* pull(): if (deferred?.resolve instanceof Function) deferred.resolve().
\* Resolving the deferred queues, as a microtask, the continuation that
\* awaits it.
onPull(s) ==
    [s EXCEPT !.scan.pulledSince = TRUE,
              !.scan.deferred = IF @ = "pending" THEN "resolved" ELSE @,
              !.scan.awaiting = IF @ = "blocked" THEN "queued" ELSE @]

\* The stream calls pull() when it is readable and a read is pending or
\* the queue is below the high water mark.
streamPullIfNeeded(s) ==
    IF /\ s.scan.stream = "readable"
       /\ ~s.scan.closeRequested
       /\ (s.scan.consumer = "reading" \/ s.scan.queue < HighWaterMark)
    THEN onPull(s)
    ELSE s

\* controller.enqueue(row): throws on a stream that is not readable; hands
\* the row to the pending read, or queues it; then pulls if needed.
streamEnqueue(s) ==
    IF s.scan.stream # "readable" \/ s.scan.closeRequested
    THEN [s EXCEPT !.threw = TRUE]
    ELSE streamPullIfNeeded(
             IF s.scan.consumer = "reading"
             THEN [s EXCEPT !.scan.consumer = "idle", !.scan.got = @ + 1]
             ELSE [s EXCEPT !.scan.queue = @ + 1])

\* controller.close(): throws on a stream that is not readable; closes it
\* at once when the queue is empty (the pending read ends the sequence),
\* else when the queue has drained.
streamClose(s) ==
    IF s.scan.stream # "readable" \/ s.scan.closeRequested
    THEN [s EXCEPT !.threw = TRUE]
    ELSE IF s.scan.queue > 0
    THEN [s EXCEPT !.scan.closeRequested = TRUE]
    ELSE [s EXCEPT !.scan.stream = "closed",
                   !.scan.consumer = IF @ = "reading" THEN "done" ELSE @]

\* A success listener that takes every result for a row.
onCursorSuccessAlwaysRow(s, hasRow) ==
    LET s2 == streamEnqueue([s EXCEPT !.scan.deferred = "pending",
                                      !.scan.pulledSince = FALSE])
        go == s2.scan.deferred = "resolved"
    IN  IF s2.threw THEN s2
        ELSE [s2 EXCEPT !.scan.awaiting = IF go THEN "queued" ELSE "blocked",
                        !.scan.inCallback = go]

\* A success listener that makes its deferred once and keeps it.
onCursorSuccessKeepsDeferred(s, hasRow) ==
    LET s1 == [s EXCEPT !.scan.deferred = IF @ = "none" THEN "pending" ELSE @,
                        !.scan.pulledSince = FALSE]
        s2 == streamEnqueue(s1)
        go == s2.scan.deferred = "resolved"
    IN  IF ~hasRow THEN controllerAbort(streamClose(s1), "AbortError")
        ELSE IF s2.threw THEN s2
        ELSE [s2 EXCEPT !.scan.awaiting = IF go THEN "queued" ELSE "blocked",
                        !.scan.inCallback = go]

\* The success listener of the cursor request: deferred =
\* Promise.withResolvers(); with a row, controller.enqueue(target.result);
\* await deferred.promise (the rest runs later, as a microtask of this
\* dispatch if pull() has resolved the deferred by now, else whenever it
\* does); without a row, controller.close(); abrt.abort().
onCursorSuccess(s, hasRow) ==
    LET s1 == [s EXCEPT !.scan.deferred = "pending",
                        !.scan.pulledSince = FALSE]
        s2 == streamEnqueue(s1)
        go == s2.scan.deferred = "resolved"
    IN  IF ~hasRow
        THEN LET c == streamClose(s1)
             IN  IF c.threw THEN c ELSE controllerAbort(c, "AbortError")
        ELSE IF s2.threw THEN s2
        ELSE [s2 EXCEPT !.scan.awaiting = IF go THEN "queued" ELSE "blocked",
                        !.scan.inCallback = go]

\* A continuation that ends without calling continue().
resumeWithoutContinue(s) ==
    [s EXCEPT !.scan.awaiting = "none", !.scan.inCallback = FALSE]

\* The listener's continuation after await deferred.promise:
\* target.result.continue().  Outside the dispatch of an event of the
\* transaction, or on a transaction that is no longer active, continue()
\* throws TransactionInactiveError.
resumeAfterAwait(s) ==
    LET ok == s.scan.inCallback /\ s.tx.state = "active"
    IN  [s EXCEPT !.scan.awaiting = "none",
                  !.scan.inCallback = FALSE,
                  !.scan.continues = @ + 1,
                  !.scan.continueThrows = IF ok THEN @ ELSE @ + 1,
                  !.threw = ~ok]

\* An error listener that aborts the controller and leaves the stream alone.
onCursorErrorKeepsStream(s, err) == controllerAbort(s, err)

\* The error listener of the cursor request: controller.error(target.error);
\* abrt.abort(target.error).
onCursorError(s, err) == controllerAbort(streamError(s, err), err)

\* The error listener of the transaction, the same two statements.
onCursorTransactionError(s, err) == controllerAbort(streamError(s, err), err)

\* The abort listener of the transaction, the same two statements.
onCursorTransactionAbort(s, err) == controllerAbort(streamError(s, err), err)

\* The abort listener on the caller's signal: controller.error(target.reason);
\* abrt.abort(target.reason); transaction.abort() unless the mode is
\* readonly.
onCursorSignalAbort(s) ==
    LET s1 == controllerAbort(streamError(s, "SignalReason"), "SignalReason")
    IN  IF s.tx.mode # "readonly" THEN IDBTransactionAbort(s1) ELSE s1

\* cancel(reason): abrt.abort(reason); transaction.abort().
onCancel(s, reason) == IDBTransactionAbort(controllerAbort(s, reason))

\* The consumer asks for the next row (next(), a read of the stream): a
\* queued row is handed over and the stream pulls; on an empty queue the
\* read waits and the stream pulls; a closed stream ends the sequence, an
\* errored one throws its error.
consumerNext(s) ==
    CASE s.scan.stream = "readable" /\ s.scan.queue > 0 ->
           LET s1 == [s EXCEPT !.scan.queue = @ - 1, !.scan.got = @ + 1]
           IN  IF s1.scan.closeRequested /\ s1.scan.queue = 0
               THEN [s1 EXCEPT !.scan.stream = "closed"]
               ELSE streamPullIfNeeded(s1)
      [] s.scan.stream = "readable" /\ s.scan.queue = 0 ->
           streamPullIfNeeded([s EXCEPT !.scan.consumer = "reading"])
      [] s.scan.stream = "closed" -> [s EXCEPT !.scan.consumer = "done"]
      [] OTHER -> [s EXCEPT !.scan.consumer = "failed"]

\* The consumer stops (break, return()): the stream is cancelled.  A
\* readable stream is closed and its cancel callback runs; what the
\* callback throws is thrown at the consumer.  An errored stream throws its
\* error, a closed one just ends.
consumerReturn(s) ==
    CASE s.scan.stream = "readable" ->
           LET s1 == onCancel([s EXCEPT !.scan.stream = "closed",
                                        !.scan.queue = 0,
                                        !.scan.cancelled = TRUE,
                                        !.scan.cut = CutOf(s)],
                              "CancelReason")
           IN  [s1 EXCEPT !.scan.consumer = IF s1.threw THEN "stopFailed"
                                            ELSE "stopped"]
      [] s.scan.stream = "closed" -> [s EXCEPT !.scan.consumer = "stopped"]
      [] OTHER -> [s EXCEPT !.scan.consumer = "stopFailed"]

-----------------------------------------------------------------------------
\* The state machine

\* No signal, a signal that is not aborted, a signal aborted before the call.
Signals ==
    {[given |-> FALSE, aborted |-> FALSE, txAt |-> "never", pendingAt |-> FALSE,
      streamAt |-> "none"],
     [given |-> TRUE, aborted |-> FALSE, txAt |-> "never", pendingAt |-> FALSE,
      streamAt |-> "none"],
     [given |-> TRUE, aborted |-> TRUE, txAt |-> "before", pendingAt |-> FALSE,
      streamAt |-> "none"]}

Init ==
    /\ api = "none"
    /\ malformed = FALSE
    /\ nItems = 0
    /\ sig \in Signals
    /\ passedSignal = FALSE
    /\ ctrl = [aborted |-> FALSE, reason |-> "none"]
    /\ promise = Pending
    /\ tx = NoTx
    /\ reqs = <<>>
    /\ lsn = {}
    /\ itemLsn = <<>>
    /\ itemPromises = <<>>
    /\ store = OldRows
    /\ staged = OldRows
    /\ opened = 0
    /\ issued = 0
    /\ settleCalls = 0
    /\ abortCalls = 0
    /\ abortThrows = 0
    /\ commitCalls = 0
    /\ scan = NoScan
    /\ effective = NoSignal
    /\ helper = NoHelper
    /\ db = NoDb
    /\ other = NoOther

\* A caller hands handleIDBRequest a request it issued itself on a
\* transaction of its own (mode "none": a request without a transaction, as
\* an open request), or a value that is no request.
CallHandleIDBRequest(isRequest, mode, registerThrows) ==
    /\ api = "none"
    /\ ~isRequest => (mode = "none" /\ ~registerThrows)
    /\ registerThrows => sig.given /\ ~sig.aborted
    /\ api' = "handleIDBRequest"
    /\ malformed' = ~isRequest
    /\ nItems' = 0
    /\ reqs' = IF ~isRequest THEN <<>>
               ELSE <<NewReq(IF mode = "readwrite" THEN "put" ELSE "read", 1)>>
    /\ passedSignal' = sig.given
    /\ Set(handleIDBRequest(
               [Cur EXCEPT !.tx = IF mode = "none" THEN NoTx ELSE NewTx(mode)],
               isRequest, sig.given, sig.aborted, registerThrows))
    /\ UNCHANGED <<sig, store, staged, opened, issued>>

\* clearStore, getItem, getAllItems, putItem, addItem, deleteItem, count,
\* getAllKeys: test the signal (if the operation does), open the
\* transaction, issue the request, bridge it.
CallOp(op) ==
    /\ api = "none"
    /\ api' = op
    /\ malformed' = FALSE
    /\ nItems' = 0
    /\ LET info == OpInfo(op)
       IN  IF info.checks /\ sig.given /\ sig.aborted
           THEN /\ promise' = Rejected("SignalReason")
                /\ UNCHANGED <<passedSignal, ctrl, tx, reqs, lsn, itemLsn,
                               itemPromises, opened, issued, settleCalls,
                               abortCalls, abortThrows, commitCalls, scan, effective, helper, db, other>>
           ELSE /\ reqs' = <<NewReq(info.effect, info.key)>>
                /\ opened' = 1
                /\ issued' = 1
                /\ passedSignal' = (info.passes /\ sig.given)
                /\ Set(handleIDBRequest(
                           [Cur EXCEPT !.tx = NewTx(info.mode)], TRUE,
                           info.passes /\ sig.given, sig.aborted, FALSE))
    /\ UNCHANGED <<sig, store, staged>>

\* putAllItems(db, storeName, items, { signal }).  isArray:
\* Array.isArray(items); n: items.length; throwAt: the item whose put throws
\* synchronously (0: none).
CallPutAllItems(isArray, n, throwAt) ==
    /\ api = "none"
    /\ throwAt <= n
    /\ ~isArray => (n = 0)
    /\ api' = "putAllItems"
    /\ malformed' = ~isArray
    /\ nItems' = n
    /\ LET g == putAllItemsGuard(isArray, n, sig.given, sig.aborted) IN
       IF g = "TypeError"
       THEN /\ promise' = Rejected("TypeError")
            /\ UNCHANGED <<passedSignal, ctrl, tx, reqs, lsn, itemLsn,
                           itemPromises, opened, issued, settleCalls,
                           abortCalls, abortThrows, commitCalls, scan, effective, helper, db, other>>
       ELSE IF g = "putItem"
       THEN \* [await putItem(db, storeName, items[0], { durability, signal })]
            IF sig.given /\ sig.aborted
            THEN /\ promise' = Rejected("SignalReason")
                 /\ UNCHANGED <<passedSignal, ctrl, tx, reqs, lsn, itemLsn,
                                itemPromises, opened, issued, settleCalls,
                                abortCalls, abortThrows, commitCalls, scan, effective, helper, db, other>>
            ELSE IF throwAt = 1
            THEN /\ promise' = Rejected("DataError")
                 /\ tx' = NewTx("readwrite")
                 /\ opened' = 1
                 /\ UNCHANGED <<passedSignal, ctrl, reqs, lsn, itemLsn,
                                itemPromises, issued, settleCalls,
                                abortCalls, abortThrows, commitCalls, scan, effective, helper, db, other>>
            ELSE /\ reqs' = <<NewReq("put", 1)>>
                 /\ opened' = 1
                 /\ issued' = 1
                 /\ passedSignal' = FALSE
                 /\ Set(handleIDBRequest(
                            [Cur EXCEPT !.tx = NewTx("readwrite")], TRUE,
                            FALSE, sig.aborted, FALSE))
       ELSE IF g = "SignalReason"
       THEN /\ promise' = Rejected("SignalReason")
            /\ UNCHANGED <<passedSignal, ctrl, tx, reqs, lsn, itemLsn,
                           itemPromises, opened, issued, settleCalls,
                           abortCalls, abortThrows, commitCalls, scan, effective, helper, db, other>>
       ELSE IF g = "empty"
       THEN /\ promise' = Resolved(<<>>)
            /\ UNCHANGED <<passedSignal, ctrl, tx, reqs, lsn, itemLsn,
                           itemPromises, opened, issued, settleCalls,
                           abortCalls, abortThrows, commitCalls, scan, effective, helper, db, other>>
       ELSE /\ reqs' = putRequests(n, throwAt)
            /\ opened' = 1
            /\ issued' = Len(putRequests(n, throwAt))
            /\ passedSignal' = FALSE
            /\ Set(putLoop([Cur EXCEPT !.tx = NewTx("readwrite"),
                                       !.lsn = BatchListeners(sig.given)],
                           n, throwAt))
    /\ UNCHANGED <<sig, store, staged>>

\* iterateObjectStore(db, storeName, { mode, signal }) and the consumer's
\* first next(): the tests, then the transaction, the cursor request and
\* the stream, whose start() registers the listeners; the first read is
\* pending and the stream pulls once (no deferred yet).  n: the rows the
\* scan matches.
CallIterateObjectStore(dbKind, nameOk, mode, n) ==
    /\ api = "none"
    /\ api' = "iterateObjectStore"
    /\ malformed' = (dbKind = "other" \/ ~nameOk)
    /\ nItems' = 0
    /\ LET g == iterateGuard(dbKind, nameOk, sig.given, sig.aborted)
       IN  IF g # "ok"
           THEN /\ n = 0
                /\ promise' = Rejected(g)
                /\ UNCHANGED <<passedSignal, ctrl, tx, reqs, lsn, itemLsn,
                               itemPromises, opened, issued, settleCalls,
                               abortCalls, abortThrows, commitCalls, scan, effective, helper, db, other>>
           ELSE /\ reqs' = <<NewReq("read", 0)>>
                /\ opened' = 1
                /\ issued' = 1
                /\ passedSignal' = sig.given
                /\ Set(streamPullIfNeeded(
                           [Cur EXCEPT
                               !.tx = NewTx(mode),
                               !.effective = NewSignal,
                               !.lsn = CursorListeners
                                       \cup (IF sig.given
                                             THEN {"cursor.signal.abort"}
                                             ELSE {}),
                               !.scan = [NewScan(n) EXCEPT
                                            !.mode = mode,
                                            !.consumer = "reading"]]))
    /\ UNCHANGED <<sig, store, staged>>

-----------------------------------------------------------------------------
\* Events.  Each action is one dispatch: the engine's (or the caller's)
\* change and, with it, every listener registered for the event.

\* A call that goes through requests and promises is under way.
Running == api \notin {"none", "iterateObjectStore"}

\* A scan is under way and no microtask is queued: a microtask runs before
\* the next event is dispatched.
Scanning ==
    /\ api = "iterateObjectStore"
    /\ opened = 1
    /\ scan.awaiting # "queued"

\* Some call is under way.
Live == Running \/ Scanning

PendingReqs == {i \in 1..Len(reqs) : reqs[i].state = "pending"}
FailedReqs == {i \in 1..Len(reqs) : reqs[i].state = "error"}

\* An error event bubbles from the request to its transaction and on to
\* the database, where the listeners of every call that registered one on
\* the database run.
bubbleToDatabase(s, err) ==
    IF "database.error" \in s.lsn THEN onRequestError(s, err) ELSE s

\* The listeners of request i for an event, run in order of registration.
dispatchSuccess(s, i, result) ==
    LET s1 == IF "request.success" \in s.lsn
              THEN onRequestSuccess(s, result) ELSE s
    IN  IF i \in DOMAIN s1.itemLsn /\ "success" \in s1.itemLsn[i]
        THEN onItemSuccess(s1, i, result) ELSE s1

\* An error is fired at the request and bubbles to the transaction and to
\* the database; a listener removed on the way is not run.
dispatchError(s, i, err) ==
    LET s1 == IF "request.error" \in s.lsn
              THEN onRequestError(s, err) ELSE s
        s2 == IF i \in DOMAIN s1.itemLsn /\ "error" \in s1.itemLsn[i]
              THEN onItemError(s1, i, err) ELSE s1
        s3 == IF "cursor.error" \in s2.lsn
              THEN onCursorError(s2, err) ELSE s2
        s4 == IF "cursor.tx.error" \in s3.lsn
              THEN onCursorTransactionError(s3, err) ELSE s3
        s5 == IF "transaction.error" \in s4.lsn
              THEN onTransactionError(s4, err) ELSE s4
    IN  bubbleToDatabase(s5, err)

\* An error event of the first call: its own listeners have run (s), the
\* second call's listeners on the database run.
SetBubbling(s, err) ==
    /\ SetCur(s)
    /\ other' = [other EXCEPT !.cur = Settled(bubbleToDatabase(@, err))]
    /\ UNCHANGED <<helper, db>>

\* dispatchSignalAbort with a composed signal that follows the internal
\* controller only.
dispatchSignalAbortControllerOnly(s, passed) ==
    LET s1 == IF "passedSignal.abort" \in s.lsn
              THEN onPassedSignalAbort(s) ELSE s
        s2 == IF "signal.abort" \in s1.lsn THEN onSignalAbort(s1) ELSE s1
        s3 == IF "cursor.signal.abort" \in s2.lsn
              THEN onCursorSignalAbort(s2) ELSE s2
    IN  IF passed
        THEN [s3 EXCEPT !.lsn = @ \ (RequestListeners \cup CursorListeners)]
        ELSE s3

\* The caller aborts its signal.  A signal composed from it takes its
\* reason at once, unless it is aborted already; the abort listeners on the
\* caller's signal run; the listeners registered with the composed signal
\* go.
dispatchSignalAbort(s, passed) ==
    LET s0 == IF passed /\ s.effective.made /\ ~s.effective.aborted
              THEN [s EXCEPT !.effective.aborted = TRUE,
                             !.effective.reason = "SignalReason"]
              ELSE s
        s1 == IF "passedSignal.abort" \in s0.lsn
              THEN onPassedSignalAbort(s0) ELSE s0
        s2 == IF "signal.abort" \in s1.lsn THEN onSignalAbort(s1) ELSE s1
        s3 == IF "cursor.signal.abort" \in s2.lsn
              THEN onCursorSignalAbort(s2) ELSE s2
    IN  IF passed
        THEN [s3 EXCEPT !.lsn = @ \ (RequestListeners \cup CursorListeners)]
        ELSE s3

SignalAbort ==
    /\ Live
    /\ sig.given /\ ~sig.aborted
    /\ sig' = [sig EXCEPT !.aborted = TRUE, !.txAt = tx.state,
                          !.pendingAt = (PendingReqs # {}),
                          !.streamAt = scan.stream]
    /\ Set(dispatchSignalAbort(Cur, passedSignal))
    /\ UNCHANGED <<api, malformed, nItems, passedSignal, reqs, store, staged, opened, issued>>

\* The engine completes request i and fires success at it.
RequestSuccess(i) ==
    /\ Running
    /\ i \in PendingReqs
    /\ tx.state \in {"active", "none"}
    /\ FailedReqs = {}
    /\ reqs' = [reqs EXCEPT
                    ![i].state = "success",
                    ![i].at = 1 + Cardinality({j \in 1..Len(reqs) :
                                                 reqs[j].state = "success"})]
    /\ staged' = Effect(staged, reqs[i])
    /\ Set(dispatchSuccess(Cur, i, <<reqs[i].key>>))
    /\ UNCHANGED <<api, malformed, nItems, sig, passedSignal, store, opened, issued>>

\* The engine fails request i and fires error at it.
RequestError(i) ==
    /\ Live
    /\ i \in PendingReqs
    /\ tx.state \in {"active", "none"}
    /\ FailedReqs = {}
    /\ reqs' = [reqs EXCEPT ![i].state = "error", ![i].error = "RequestError"]
    /\ SetBubbling(dispatchError(Cur, i, "RequestError"), "RequestError")
    /\ UNCHANGED <<api, malformed, nItems, sig, passedSignal, store, staged, opened, issued>>

\* After an error event nobody cancelled, the engine aborts the transaction
\* with the request's error, unless a listener aborted it already.
EngineDefaultAbort ==
    /\ Live
    /\ tx.state = "active"
    /\ FailedReqs # {}
    /\ tx' = [tx EXCEPT !.state = "aborting", !.error = "RequestError"]
    /\ UNCHANGED <<api, malformed, nItems, sig, passedSignal, ctrl, promise, reqs, lsn, itemLsn,
                   itemPromises, store, staged, opened, issued, settleCalls,
                   abortCalls, abortThrows, commitCalls, scan, effective, helper, db, other>>

\* The transaction is aborted from outside this layer: the engine does it
\* (the connection is closed by force, the commit fails), or the caller who
\* owns the transaction of a bridged request calls abort() on it.
EngineAbort ==
    /\ Live
    /\ tx.state \in {"active", "committing"}
    /\ FailedReqs = {}
    /\ tx' = [tx EXCEPT !.state = "aborting", !.error = "EngineError"]
    /\ UNCHANGED <<api, malformed, nItems, sig, passedSignal, ctrl, promise, reqs, lsn, itemLsn,
                   itemPromises, store, staged, opened, issued, settleCalls,
                   abortCalls, abortThrows, commitCalls, scan, effective, helper, db, other>>

\* A request still pending when its transaction was aborted gets an error
\* event with AbortError.
RequestAbortError(i) ==
    /\ Live
    /\ i \in PendingReqs
    /\ tx.state = "aborting"
    /\ reqs' = [reqs EXCEPT ![i].state = "error", ![i].error = "AbortError"]
    /\ SetBubbling(dispatchError(Cur, i, "AbortError"), "AbortError")
    /\ UNCHANGED <<api, malformed, nItems, sig, passedSignal, store, staged, opened, issued>>

\* The abort event of an aborted transaction, after its requests' errors.
\* The rows the transaction wrote are dropped.
TransactionAbortEvent ==
    /\ Live
    /\ tx.state = "aborting"
    /\ PendingReqs = {}
    /\ staged' = store
    /\ LET s == [Cur EXCEPT !.tx.state = "aborted"]
       IN  Set(IF "transaction.abort" \in lsn
               THEN onTransactionAbort(s, tx.error)
               ELSE IF "cursor.tx.abort" \in lsn
               THEN onCursorTransactionAbort(s, tx.error)
               ELSE s)
    /\ UNCHANGED <<api, malformed, nItems, sig, passedSignal, reqs, store, opened, issued>>

\* Auto-commit: no request is pending and the turn has ended.
EngineAutoCommit ==
    /\ Live
    /\ tx.state = "active"
    /\ PendingReqs = {}
    /\ FailedReqs = {}
    /\ tx' = [tx EXCEPT !.state = "committing"]
    /\ UNCHANGED <<api, malformed, nItems, sig, passedSignal, ctrl, promise, reqs, lsn, itemLsn,
                   itemPromises, store, staged, opened, issued, settleCalls,
                   abortCalls, abortThrows, commitCalls, scan, effective, helper, db, other>>

\* The commit is done: the rows are in the store, complete is fired.
TransactionComplete ==
    /\ Live
    /\ tx.state = "committing"
    /\ store' = staged
    /\ LET s == [Cur EXCEPT !.tx.state = "committed"]
       IN  Set(IF "transaction.complete" \in lsn
               THEN onTransactionComplete(s) ELSE s)
    /\ UNCHANGED <<api, malformed, nItems, sig, passedSignal, reqs, staged, opened, issued>>

\* The engine completes the cursor request and fires success at it: with
\* the next row, or with no row when the scan is past the last one.
CursorSuccess ==
    /\ Scanning
    /\ PendingReqs = {1}
    /\ tx.state = "active"
    /\ reqs' = [reqs EXCEPT ![1].state = "success"]
    /\ LET hasRow == scan.pos < scan.n
           s == [Cur EXCEPT !.scan.pos = IF hasRow THEN @ + 1 ELSE @]
       IN  Set(IF "cursor.success" \in lsn THEN onCursorSuccess(s, hasRow)
               ELSE s)
    /\ UNCHANGED <<api, malformed, nItems, sig, passedSignal, store, staged, opened,
                   issued>>

\* The microtask that resumes the success listener after its await: when
\* continue() does not throw, the cursor request is pending again.
ResumeAfterAwait ==
    /\ api = "iterateObjectStore"
    /\ scan.awaiting = "queued"
    /\ LET s == resumeAfterAwait(Cur)
       IN  /\ Set(s)
           /\ reqs' = IF s.threw \/ s.scan.continues = scan.continues
                      THEN reqs
                      ELSE [reqs EXCEPT ![1].state = "pending"]
    /\ UNCHANGED <<api, malformed, nItems, sig, passedSignal, store, staged, opened,
                   issued>>

\* The consumer, holding a row, asks for the next one.
ConsumerNext ==
    /\ Scanning
    /\ scan.consumer = "idle"
    /\ Set(consumerNext(Cur))
    /\ UNCHANGED <<api, malformed, nItems, sig, passedSignal, reqs, store, staged, opened,
                   issued>>

\* The consumer, holding a row, stops the scan.
ConsumerReturn ==
    /\ Scanning
    /\ scan.consumer = "idle"
    /\ Set(consumerReturn(Cur))
    /\ UNCHANGED <<api, malformed, nItems, sig, passedSignal, reqs, store, staged, opened,
                   issued>>

Modes == {"readonly", "readwrite"}

\* The engine's and the caller's steps, the engine's own abort apart.
Step ==
    \/ \E isRequest \in BOOLEAN, mode \in Modes \cup {"none"},
          registerThrows \in BOOLEAN :
          CallHandleIDBRequest(isRequest, mode, registerThrows)
    \/ \E op \in Ops : CallOp(op)
    \/ \E isArray \in BOOLEAN, n \in 0..MaxItems, throwAt \in 0..MaxItems :
          CallPutAllItems(isArray, n, throwAt)
    \/ \E dbKind \in {"db", "openRequest", "other"}, nameOk \in BOOLEAN,
          mode \in Modes, n \in 0..MaxRows :
          CallIterateObjectStore(dbKind, nameOk, mode, n)
    \/ CursorSuccess
    \/ ResumeAfterAwait
    \/ ConsumerNext
    \/ ConsumerReturn
    \/ SignalAbort
    \/ \E i \in 1..MaxItems : RequestSuccess(i)
    \/ \E i \in 1..MaxItems : RequestError(i)
    \/ \E i \in 1..MaxItems : RequestAbortError(i)
    \/ EngineDefaultAbort
    \/ TransactionAbortEvent
    \/ EngineAutoCommit
    \/ TransactionComplete

Next == Step \/ EngineAbort

Spec == Init /\ [][Next]_vars

\* The same program against an engine that never aborts a transaction on
\* its own: every abort is the code's, or follows a request's error.
QuietSpec == Init /\ [][Step]_vars

\* The engine's deliveries: every event it has queued is dispatched, every
\* transaction it is finishing finishes, every resumed listener runs.  The
\* caller's steps (a call, the signal's abort, the consumer's reads) and the
\* engine's own abort are under no obligation to happen.
Deliver ==
    \/ \E i \in 1..MaxItems : RequestSuccess(i)
    \/ \E i \in 1..MaxItems : RequestError(i)
    \/ \E i \in 1..MaxItems : RequestAbortError(i)
    \/ EngineDefaultAbort
    \/ TransactionAbortEvent
    \/ EngineAutoCommit
    \/ TransactionComplete
    \/ CursorSuccess
    \/ ResumeAfterAwait

FairSpec == Init /\ [][Next]_vars /\ WF_vars(Deliver)

\* A scan against an engine that never aborts on its own and delivers
\* fairly, read by a consumer that, holding a row, eventually asks for the
\* next one.
ScanFairSpec ==
    Init /\ [][Step]_vars /\ WF_vars(Deliver) /\ WF_vars(ConsumerNext)

-----------------------------------------------------------------------------
\* A second call next to the first: handleIDBRequest(request, { signal })
\* with a request on a transaction of its own and a signal of its own, on
\* the same database.

\* The second call's steps leave the first call's state alone, but for the
\* listeners the first call has on the database.
OtherFrame ==
    UNCHANGED <<api, malformed, nItems, sig, passedSignal, reqs, store, staged,
                opened, issued, helper, db>>

Alone == SetCur(Cur)

OtherCall(mode) ==
    /\ ~other.called
    /\ other' = [other EXCEPT
                    !.called = TRUE,
                    !.req = "pending",
                    !.cur = Settled(handleIDBRequest(
                                [InitCur EXCEPT !.tx = NewTx(mode)], TRUE,
                                other.sig.given, other.sig.aborted, FALSE))]
    /\ Alone
    /\ OtherFrame

OtherSignalAbort ==
    /\ other.sig.given /\ ~other.sig.aborted
    /\ other' = [other EXCEPT
                    !.sig.aborted = TRUE,
                    !.cur = Settled(dispatchSignalAbort(@, other.sig.given))]
    /\ Alone
    /\ OtherFrame

OtherRequestSuccess ==
    /\ other.req = "pending"
    /\ other.cur.tx.state = "active"
    /\ other' = [other EXCEPT
                    !.req = "success",
                    !.cur = Settled(dispatchSuccess(@, 1, <<0>>))]
    /\ Alone
    /\ OtherFrame

\* The second call's request fails, or gets AbortError because its
\* transaction was aborted: the error reaches the database too.
OtherRequestError ==
    /\ other.req = "pending"
    /\ other.cur.tx.state \in {"active", "aborting"}
    /\ LET err == IF other.cur.tx.state = "active" THEN "RequestError"
                  ELSE "AbortError"
       IN  /\ other' = [other EXCEPT
                           !.req = "error",
                           !.cur = Settled(dispatchError(@, 1, err))]
           /\ SetCur(bubbleToDatabase(Cur, err))
    /\ OtherFrame

\* The engine aborts the second call's transaction after the error, and
\* finishes what is aborting or committing.
OtherEngine ==
    /\ other.called
    /\ \/ /\ other.req = "error" /\ other.cur.tx.state = "active"
          /\ other' = [other EXCEPT !.cur.tx.state = "aborting",
                                    !.cur.tx.error = "RequestError"]
       \/ /\ other.req # "pending" /\ other.cur.tx.state = "aborting"
          /\ other' = [other EXCEPT !.cur.tx.state = "aborted"]
       \/ /\ other.req = "success" /\ other.cur.tx.state = "active"
          /\ other' = [other EXCEPT !.cur.tx.state = "committing"]
       \/ /\ other.cur.tx.state = "committing"
          /\ other' = [other EXCEPT !.cur.tx.state = "committed"]
    /\ Alone
    /\ OtherFrame

OtherNext ==
    \/ \E mode \in Modes : OtherCall(mode)
    \/ OtherSignalAbort
    \/ OtherRequestSuccess
    \/ OtherRequestError
    \/ OtherEngine

PairNext == Next \/ OtherNext

PairSpec == Init /\ [][PairNext]_vars

-----------------------------------------------------------------------------
\* The synchronous helpers, called directly

MaxCalls == 2

\* createStore(db, name, { keyPath, autoIncrement, indexes }).  opt.kind is
\* what options.indexes is: "undefined", "null" or an "object" whose keys
\* are opt.names.  db.createObjectStore throws InvalidStateError outside an
\* upgrade; typeof null is 'object', and Object.entries(null) throws.
createStore(d, name, opt) ==
    IF name \notin d.names
    THEN IF ~d.upgrading
         THEN [db |-> d, ret |-> "none", threw |-> TRUE]
         ELSE LET d1 == [d EXCEPT !.names = @ \cup {name},
                                  !.indexes[name] = {}]
              IN  CASE opt.kind = "undefined" ->
                         [db |-> d1, ret |-> "undefined", threw |-> FALSE]
                    [] opt.kind = "null" ->
                         [db |-> d1, ret |-> "none", threw |-> TRUE]
                    [] OTHER ->
                         [db |-> [d1 EXCEPT !.indexes[name] = opt.names],
                          ret |-> "undefined", threw |-> FALSE]
    ELSE [db |-> d, ret |-> "null", threw |-> FALSE]

\* The transactions a caller can hold, and the databases.
HelperTxs ==
    {NoTx} \cup
    {[state |-> st, mode |-> m, error |-> "none"] :
        st \in {"active", "committing", "aborting", "committed", "aborted"},
        m \in {"readonly", "readwrite"}}

HelperDbs ==
    {d \in [upgrading : BOOLEAN, names : SUBSET StoreNames,
            indexes : [StoreNames -> SUBSET IndexNames]] :
        \A n \in StoreNames \ d.names : d.indexes[n] = {}}

\* An upgrade runs while no other transaction of the database is live.
HelperInit ==
    /\ api = "none"
    /\ malformed = FALSE
    /\ nItems = 0
    /\ sig = [given |-> FALSE, aborted |-> FALSE, txAt |-> "none",
              pendingAt |-> FALSE, streamAt |-> "none"]
    /\ passedSignal = FALSE
    /\ ctrl = [aborted |-> FALSE, reason |-> "none"]
    /\ promise = Pending
    /\ tx \in HelperTxs
    /\ reqs = <<>>
    /\ lsn = {}
    /\ itemLsn = <<>>
    /\ itemPromises = <<>>
    /\ store = OldRows
    /\ staged = OldRows
    /\ opened = 0
    /\ issued = 0
    /\ settleCalls = 0
    /\ abortCalls = 0
    /\ abortThrows = 0
    /\ commitCalls = 0
    /\ scan = NoScan
    /\ effective = NoSignal
    /\ helper = NoHelper
    /\ other = NoOther
    /\ db \in HelperDbs
    /\ db.upgrading => tx.state \notin {"active", "committing", "aborting"}

HelperFrame ==
    UNCHANGED <<api, malformed, nItems, sig, passedSignal, reqs, store, staged, opened,
                issued, other>>

Called(fn, x, opt, s) ==
    [fn |-> fn, x |-> x, opt |-> opt, ret |-> s.ret, threw |-> s.threw,
     calls |-> helper.calls + 1]

\* What a caller passes for the transaction: a request or a transaction it
\* holds, null, or something else.
HelperArgs ==
    {"request", "null", "reason"}
        \cup (IF tx.mode # "none" THEN {"transaction"} ELSE {})

CallCommitTransaction(x) ==
    /\ helper.calls < MaxCalls
    /\ x \in HelperArgs
    /\ LET s == commitTransaction(Cur, x)
       IN  SetCur(s) /\ helper' = Called("commitTransaction", x, helper.opt, s)
    /\ UNCHANGED db
    /\ HelperFrame

CallAbortTransaction(x) ==
    /\ helper.calls < MaxCalls
    /\ x \in HelperArgs
    /\ LET s == abortTransaction(Cur, x)
       IN  SetCur(s) /\ helper' = Called("abortTransaction", x, helper.opt, s)
    /\ UNCHANGED db
    /\ HelperFrame

\* The stream runs the cursor's cancel callback.
CallCancel(reason) ==
    /\ helper.calls < MaxCalls
    /\ tx.mode # "none"
    /\ LET s == onCancel(Cur, reason)
       IN  SetCur(s) /\ helper' = Called("cancel", reason, helper.opt, s)
    /\ UNCHANGED db
    /\ HelperFrame

CallCreateStore(name, opt) ==
    /\ helper.calls < MaxCalls
    /\ LET r == createStore(db, name, opt)
       IN  /\ db' = r.db
           /\ helper' = Called("createStore", name, opt, r)
    /\ SetCur(Cur)
    /\ HelperFrame

\* The engine finishes a transaction that is committing or aborting.
HelperEngineFinish ==
    /\ tx.state \in {"committing", "aborting"}
    /\ tx' = [tx EXCEPT !.state = IF @ = "committing" THEN "committed"
                                   ELSE "aborted"]
    /\ UNCHANGED <<api, malformed, nItems, sig, passedSignal, ctrl, promise, reqs, lsn,
                   itemLsn, itemPromises, store, staged, opened, issued,
                   settleCalls, abortCalls, abortThrows, commitCalls, scan,
                   effective, helper, db, other>>

HelperOpts ==
    {[kind |-> "undefined", names |-> {}], [kind |-> "null", names |-> {}]}
        \cup {[kind |-> "object", names |-> ns] : ns \in SUBSET IndexNames}

HelperNext ==
    \/ \E x \in {"request", "transaction", "null", "reason"} :
          CallCommitTransaction(x)
    \/ \E x \in {"request", "transaction", "null", "reason"} :
          CallAbortTransaction(x)
    \/ \E reason \in {"CancelReason"} : CallCancel(reason)
    \/ \E name \in StoreNames, opt \in HelperOpts : CallCreateStore(name, opt)
    \/ HelperEngineFinish

HelperSpec == HelperInit /\ [][HelperNext]_vars

-----------------------------------------------------------------------------
\* Properties

\* The keys of the batch handed to putAllItems.
BatchKeys == 1..nItems

\* The transaction has ended, or the call never had one.
Finished == tx.state \in {"none", "committed", "aborted"}

\* The call went through handleIDBRequest with a request: the single-shot
\* operations, a direct call, and putAllItems with one item.
Bridged ==
    \/ api \in Ops \cup {"handleIDBRequest"}
    \/ api = "putAllItems" /\ nItems = 1

BridgedRequest == Bridged /\ Len(reqs) = 1

\* C1: a putAllItems call that has ended either resolved with N keys and
\* all N rows are in the store, or rejected and none of the N rows is in
\* the store.
C1_Atomicity ==
    (api = "putAllItems" /\ promise.state # "pending" /\ Finished)
        => \/ /\ promise.state = "resolved"
              /\ Len(promise.value) = nItems
              /\ BatchKeys \subseteq store
           \/ /\ promise.state = "rejected"
              /\ BatchKeys \cap store = {}

\* C2: in a batch of N >= 2 items whose puts were all issued, once a put
\* has fired its error and the transaction has ended, the transaction is
\* aborted, the returned promise is rejected with that error and none of
\* the items is in the store.
C2_ItemErrorRejectsBatch ==
    (/\ api = "putAllItems" /\ nItems >= 2 /\ Len(reqs) = nItems
     /\ \E i \in 1..Len(reqs) : reqs[i].error = "RequestError"
     /\ Finished)
        => /\ tx.state = "aborted"
           /\ promise = Rejected("RequestError")
           /\ BatchKeys \cap store = {}

\* C3: for a batch of N >= 1 items, once the caller's signal has aborted
\* while the transaction was active, the transaction is aborted, the
\* promise is rejected with the signal's reason and no item is in the store.
C3_SignalAbortsBatch ==
    (/\ api = "putAllItems" /\ nItems >= 1 /\ Len(reqs) = nItems
     /\ sig.txAt = "active")
        => /\ tx.state \in {"aborting", "aborted"}
           /\ promise = Rejected("SignalReason")
           /\ BatchKeys \cap store = {}

\* C4: once the signal handed to handleIDBRequest has aborted while the
\* request was pending, the promise is rejected with the signal's reason,
\* the request's listeners are gone, and a transaction that is not
\* read-only is aborted.
C4_SignalAbortsBridge ==
    (/\ BridgedRequest /\ passedSignal /\ sig.pendingAt
     /\ sig.txAt = "active" /\ promise.error # "RegisterError")
        => /\ promise = Rejected("SignalReason")
           /\ lsn \cap RequestListeners = {}
           /\ tx.mode = "readwrite" => tx.state \in {"aborting", "aborted"}

\* C5: once a bridged request has fired error (the signal not having
\* aborted), the promise is rejected with the request's error, a
\* transaction that is not read-only is aborted, and the bridge has not
\* called abort() on a read-only one.
C5_ErrorAbortsAndRejects ==
    (/\ BridgedRequest /\ reqs[1].state = "error"
     /\ ~(passedSignal /\ sig.aborted) /\ promise.error # "RegisterError")
        => /\ promise = Rejected(reqs[1].error)
           /\ tx.mode = "readwrite" => tx.state \in {"aborting", "aborted"}
           /\ tx.mode = "readonly" => abortCalls = 0

C8_SettlesExactlyOnce ==
    (BridgedRequest /\ promise.error # "RegisterError")
        => /\ settleCalls <= 1
           /\ (reqs[1].state # "pending" \/ (passedSignal /\ sig.aborted))
                  => promise.state # "pending"

\* C9: handleIDBRequest called with a request and a signal that is already
\* aborted has rejected with the signal's reason by one call of reject and
\* holds no listener, in every state that follows, whatever the request
\* does.
C9_AbortedSignalNeverSubscribes ==
    (BridgedRequest /\ passedSignal /\ sig.txAt = "before")
        => /\ promise = Rejected("SignalReason")
           /\ settleCalls = 1
           /\ lsn = {}
           /\ ~ctrl.aborted

C9_Witness ==
    /\ BridgedRequest
    /\ passedSignal
    /\ sig.txAt = "before"
    /\ reqs[1].state = "success"
    /\ promise = Rejected("SignalReason")

\* C10: an exported operation called with a signal that is already aborted
\* has rejected, has opened no transaction and issued no request, and the
\* store holds what it held.
C10_NothingStartedOnAbortedSignal ==
    (api \notin {"none", "handleIDBRequest"} /\ sig.txAt = "before")
        => /\ promise.state = "rejected"
           /\ opened = 0
           /\ issued = 0
           /\ store = OldRows

\* C11: when the signal handed to the bridge aborts after the promise was
\* resolved by the request's success, the promise stays resolved with the
\* same value, the bridge's abort listener on the signal is no longer
\* registered, and the bridge calls abort() on the transaction neither in
\* that step nor before it.
C11_AbortAfterSuccessIgnored ==
    [][(/\ BridgedRequest /\ passedSignal /\ promise.state = "resolved"
        /\ ~sig.aborted /\ sig'.aborted)
        => /\ promise' = promise
           /\ "passedSignal.abort" \notin lsn
           /\ settleCalls' = settleCalls
           /\ abortCalls' = 0
           /\ tx' = tx]_vars

C11_Witness ==
    /\ BridgedRequest /\ passedSignal
    /\ reqs[1].state = "success"
    /\ promise = Resolved(<<reqs[1].key>>)
    /\ sig.aborted
    /\ sig.txAt = "active"
    /\ tx.mode = "readwrite"

\* C12: for every single-shot operation called with a signal, once the
\* signal has aborted while the request was pending, the promise is rejected
\* with the signal's reason, from the step of the abort on.
C12_SignalCancelsOperation ==
    (api \in Ops /\ sig.given /\ sig.pendingAt)
        => promise = Rejected("SignalReason")

\* C13: a putAllItems promise for N >= 2 items is resolved only when the
\* transaction has fired complete, and then with exactly N keys, the i-th
\* being the result of the i-th item's put, in whatever order the puts'
\* successes were fired.
C13_KeysInInputOrderAfterComplete ==
    (api = "putAllItems" /\ nItems >= 2 /\ promise.state = "resolved")
        => /\ tx.state = "committed"
           /\ Len(reqs) = nItems
           /\ Len(promise.value) = nItems
           /\ \A i \in 1..nItems :
                  /\ reqs[i].state = "success"
                  /\ promise.value[i] = reqs[i].key

\* Resolved after the second item's success was fired before the first's.
C13_Witness ==
    /\ api = "putAllItems" /\ nItems >= 2
    /\ promise.state = "resolved"
    /\ tx.state = "committed"
    /\ reqs[2].at < reqs[1].at

\* C14 as the specification states it: a putAllItems call for N >= 2 items
\* (its signal not aborted beforehand) has opened one transaction and
\* issued exactly N puts.
C14_IssuesExactlyN ==
    (api = "putAllItems" /\ nItems >= 2 /\ sig.txAt # "before")
        => /\ opened = 1
           /\ issued = nItems

\* C14, amended: a putAllItems call for N >= 2 items whose signal was not
\* aborted beforehand has opened one read-write transaction and issued, in
\* the call itself, one put per item in input order up to the first put
\* that threw: N puts when none threw, fewer when one did.  No later step
\* opens a transaction or issues a request.
C14_IssuesInOrderUntilThrow ==
    /\ [](  (api = "putAllItems" /\ nItems >= 2 /\ sig.txAt # "before")
            => /\ opened = 1
               /\ tx.mode = "readwrite"
               /\ issued = Len(reqs)
               /\ \A i \in 1..Len(reqs) :
                      reqs[i].effect = "put" /\ reqs[i].key = i
               /\ (promise.error # "DataError") => (issued = nItems)
               /\ (promise.error = "DataError") => (issued < nItems))
    /\ [][api = "putAllItems"
            => /\ opened' = opened
               /\ issued' = issued
               /\ Len(reqs') = Len(reqs)]_vars

\* The third of three puts threw: two were issued.
C14_Witness ==
    /\ api = "putAllItems" /\ nItems = 3
    /\ promise = Rejected("DataError")
    /\ opened = 1
    /\ issued = 2
    /\ reqs[1].state = "success"

\* C15: putAllItems called with an empty array (its signal, if any, not
\* aborted) is resolved with the empty list of keys from the call on, and
\* has opened no transaction and issued no request.
C15_EmptyBatchResolvesAtOnce ==
    (/\ api = "putAllItems" /\ nItems = 0
     /\ promise.error # "TypeError" /\ sig.txAt # "before")
        => /\ promise = Resolved(<<>>)
           /\ opened = 0
           /\ issued = 0
           /\ tx = NoTx
           /\ lsn = {}

C15_Witness ==
    /\ api = "putAllItems" /\ nItems = 0
    /\ promise = Resolved(<<>>)
    /\ sig.given
    /\ opened = 0

\* A scan that got past its tests: the transaction is open, the stream made.
ScanOpen == api = "iterateObjectStore" /\ opened = 1

\* C16: continue() is called only when pull() has been invoked since the
\* last success notification of the cursor request; a pull made before that
\* notification does not count.
C16_AdvanceOnlyAfterPull ==
    [][(ScanOpen /\ scan'.continues # scan.continues)
        => /\ scan.pulledSince
           /\ scan.deferred = "resolved"
           /\ scan.pos >= 1]_vars

\* The second row was queued, the consumer asked for it and the pull let
\* the listener go on to continue().
C16_Witness ==
    /\ ScanOpen
    /\ scan.continues = 2
    /\ scan.got = 2
    /\ scan.pos = 2
    /\ scan.pulledSince

\* C17 as the specification states it: continue() is called in the step of
\* the pull, so that in no state a pull has released the listener and the
\* advance is still to come.
C17_AdvanceSynchronous == ScanOpen => scan.awaiting # "queued"

\* C17, amended: pull() only releases the listener, whose continuation
\* calls continue() as a microtask.  The step after the release is that
\* call and nothing else: no event is dispatched, the signal does not
\* abort and the transaction does not change state in between; and
\* continue() is called from nowhere else.
C17_AdvanceInMicrotaskOfPull ==
    /\ [][(ScanOpen /\ scan.awaiting = "queued")
            => /\ scan'.continues = scan.continues + 1
               /\ scan'.awaiting = "none"
               /\ tx' = tx
               /\ sig' = sig
               /\ scan'.stream = scan.stream
               /\ scan'.pos = scan.pos]_vars
    /\ [][(ScanOpen /\ scan'.continues # scan.continues)
            => scan.awaiting = "queued"]_vars

\* The consumer's pull released the listener outside the dispatch of the
\* success event.
C17_Witness ==
    /\ ScanOpen
    /\ scan.awaiting = "queued"
    /\ ~scan.inCallback
    /\ scan.pulledSince
    /\ scan.continues = 1

\* C18: while the stream of a scan is readable (the cursor is positioned
\* or waits for a pull) its transaction is active.
C18_TransactionLivesWithCursor ==
    (ScanOpen /\ scan.stream = "readable") => tx.state = "active"

\* C19: once the signal has aborted while the stream was readable and the
\* transaction active, the stream is errored with the signal's reason, the
\* transaction is aborted, and the engine produces and the consumer gets
\* no row beyond those of that moment.
C19_SignalAbortEndsScan ==
    (ScanOpen /\ sig.streamAt = "readable" /\ sig.txAt = "active")
        => /\ scan.stream = "errored"
           /\ scan.error = "SignalReason"
           /\ tx.state \in {"aborting", "aborted"}
           /\ scan.pos = scan.cut.pos
           /\ scan.got = scan.cut.got

\* C20: once the consumer has stopped a scan whose stream was readable,
\* abort() has not been called on a transaction that was no longer active
\* (it has not thrown), the transaction is not active, no listener is
\* registered and continue() has not been called since.
C20_StopLeavesNothingBehind ==
    (ScanOpen /\ scan.cancelled)
        => /\ abortThrows = 0
           /\ tx.state # "active"
           /\ lsn = {}
           /\ scan.continues = scan.cut.continues
           /\ scan.consumer = "stopped"

\* C21: once the cursor request has fired error, or the transaction has
\* reported its abort, the stream is no longer readable; the step in which
\* such an event takes a readable stream away errors it with the error of
\* that event; and an errored stream stays errored with the same error,
\* hands no further row to the consumer, holds no row and sees no further
\* continue().
C21_ErroredIsAbsorbing ==
    /\ []((ScanOpen /\ (reqs[1].state = "error" \/ tx.state = "aborted"))
            => scan.stream # "readable")
    /\ [][(/\ ScanOpen /\ scan.stream = "readable"
           /\ scan'.stream # "readable"
           /\ \/ (reqs'[1].state = "error" /\ reqs[1].state # "error")
              \/ (tx'.state = "aborted" /\ tx.state # "aborted"))
            => /\ scan'.stream = "errored"
               /\ scan'.error = IF reqs'[1].state = "error"
                                   /\ reqs[1].state # "error"
                                THEN reqs'[1].error ELSE tx.error
               /\ ctrl'.aborted
               /\ lsn' = {}]_vars
    /\ [][(ScanOpen /\ scan.stream = "errored")
            => /\ scan'.stream = "errored"
               /\ scan'.error = scan.error
               /\ scan'.got = scan.got
               /\ scan'.queue = 0
               /\ scan'.continues = scan.continues]_vars

\* The transaction's abort errored the stream while a row was queued and
\* the listener waited; the consumer then asked for a row and got the error.
C21_Witness ==
    /\ ScanOpen
    /\ scan.stream = "errored"
    /\ scan.error = "EngineError"
    /\ tx.state = "aborted"
    /\ scan.awaiting = "blocked"
    /\ scan.consumer = "failed"

\* C22: continue() is called at most once per row the engine has produced,
\* whatever the number of pulls: each call follows a success notification
\* with a row that no call has answered yet.  A success notification
\* without a row, delivered to the listener, closes the stream, aborts the
\* internal controller and calls continue() no more.
C22_OneAdvancePerRow ==
    /\ [](ScanOpen => scan.continues <= scan.pos)
    /\ [][(ScanOpen /\ scan'.continues # scan.continues)
            => /\ scan'.continues = scan.continues + 1
               /\ scan.continues < scan.pos]_vars
    /\ [][(/\ ScanOpen /\ "cursor.success" \in lsn
           /\ reqs[1].state = "pending" /\ reqs'[1].state = "success"
           /\ scan.pos = scan.n)
            => /\ scan'.stream = "closed"
               /\ ctrl'.aborted
               /\ lsn' = {}
               /\ scan'.awaiting = "none"
               /\ scan'.continues = scan.continues]_vars

\* A scan of two rows, closed by the success notification without a row,
\* after two calls of continue().
C22_Witness ==
    /\ ScanOpen
    /\ scan.n = 2
    /\ scan.stream = "closed"
    /\ ~scan.cancelled
    /\ scan.continues = 2
    /\ ctrl.aborted

\* C24: a scan that got past its tests has opened one transaction, in the
\* mode asked for, and issued one request on it, the cursor request; no
\* later step opens a transaction or issues another request; and once the
\* stream is closed or errored the consumer gets no further row.
C24_OneTransactionOneCursor ==
    /\ [](ScanOpen
            => /\ opened = 1
               /\ issued = 1
               /\ Len(reqs) = 1
               /\ tx.mode = scan.mode
               /\ scan.got <= scan.n)
    /\ [][api = "iterateObjectStore"
            => /\ opened' = opened
               /\ issued' = issued
               /\ Len(reqs') = Len(reqs)
               /\ tx'.mode = tx.mode]_vars
    /\ [][(ScanOpen /\ scan.stream \in {"closed", "errored"})
            => /\ scan'.got = scan.got
               /\ scan'.stream = scan.stream
               /\ scan'.continues = scan.continues]_vars

\* A read-write scan of two rows, run to its end.
C24_Witness ==
    /\ ScanOpen
    /\ scan.mode = "readwrite"
    /\ scan.n = 2
    /\ scan.got = 2
    /\ scan.stream = "closed"
    /\ scan.consumer = "done"
    /\ tx.state = "committed"

\* C23: when the transaction of a scan has ended, with no error and no
\* cancellation, and the consumer has asked for the next row each time it
\* got one, the consumer has got each of the n rows and the end of the
\* sequence.
C23_YieldsAllRowsThenEnds ==
    (/\ ScanOpen /\ Finished
     /\ scan.stream # "errored" /\ ~scan.cancelled
     /\ scan.consumer \in {"reading", "done"})
        => /\ scan.consumer = "done"
           /\ scan.got = scan.n
           /\ scan.pos = scan.n

\* C27: handleIDBRequest called with a value that is no IDBRequest has
\* rejected with a TypeError from the call on, by one call of reject,
\* whatever the signal; it has registered no listener, made no controller
\* abort and called neither abort() nor commit().
C27_NotARequestIsTypeError ==
    (api = "handleIDBRequest" /\ Len(reqs) = 0)
        => /\ promise = Rejected("TypeError")
           /\ settleCalls = 1
           /\ lsn = {}
           /\ ~ctrl.aborted
           /\ tx = NoTx
           /\ abortCalls = 0
           /\ commitCalls = 0

\* Called with no request and a signal that is already aborted.
C27_Witness ==
    /\ api = "handleIDBRequest"
    /\ Len(reqs) = 0
    /\ sig.txAt = "before"
    /\ promise = Rejected("TypeError")

\* C26: the signal the bridge and the cursor compose is aborted exactly
\* when the caller's signal (if it was given to the composition) or the
\* internal controller has aborted; once aborted it stays aborted, and its
\* reason stays the reason of the first of the two to abort, whatever
\* aborts after.
C26_ComposedSignal ==
    /\ [](effective.made =>
             (effective.aborted <=> ((passedSignal /\ sig.aborted)
                                         \/ ctrl.aborted)))
    /\ [][/\ (effective.aborted => effective' = effective)
          /\ (~effective.aborted /\ effective'.aborted)
                 => effective'.reason =
                        IF passedSignal /\ ~sig.aborted /\ sig'.aborted
                        THEN "SignalReason" ELSE ctrl'.reason]_vars

\* The controller aborted first with its own reason, the caller's signal
\* aborted afterwards with another: the composed signal keeps the first.
C26_Witness ==
    /\ effective.made /\ effective.aborted
    /\ passedSignal /\ sig.aborted /\ ctrl.aborted
    /\ effective.reason = ctrl.reason /\ effective.reason # "SignalReason"

\* The step is a direct call of one of the helpers fns.
HelperCall(fns) ==
    helper'.calls = helper.calls + 1 /\ helper'.fn \in fns

\* C25: commitTransaction, abortTransaction and the cursor's cancel, applied
\* to a transaction that has already committed or aborted, raise nothing
\* and leave the transaction as it is.
C25_FinalizingIsIdempotent ==
    [][(/\ HelperCall({"commitTransaction", "abortTransaction", "cancel"})
        /\ tx.state \in {"committed", "aborted"})
           => (~helper'.threw /\ tx' = tx)]_vars

\* C28: commitTransaction(x) and abortTransaction(x) return true, having
\* committed or aborted the transaction, exactly when x is a transaction
\* that is not read-only or a request of such a transaction; for any other
\* x they return false and leave the transaction unchanged.
C28_TrueExactlyWhenWritable ==
    [][HelperCall({"commitTransaction", "abortTransaction"})
           => IF /\ helper'.x \in {"transaction", "request"}
                 /\ tx.mode \notin {"none", "readonly"}
              THEN /\ helper'.ret = "true"
                   /\ tx.state = "active"
                         => tx'.state = IF helper'.fn = "commitTransaction"
                                        THEN "committing" ELSE "aborting"
              ELSE helper'.ret = "false" /\ tx' = tx]_vars

\* C29: during an upgrade, createStore(db, name, options) on a database
\* without a store of that name creates the store with every index listed
\* in options.indexes and returns it; on a database that has the store it
\* returns null and changes nothing.
C29_CreateStoreReturnsTheStore ==
    [][(HelperCall({"createStore"}) /\ db.upgrading)
           => IF helper'.x \notin db.names
              THEN /\ helper'.ret = "store"
                   /\ db'.names = db.names \cup {helper'.x}
                   /\ db'.indexes[helper'.x] = helper'.opt.names
                   /\ \A n \in db.names : db'.indexes[n] = db.indexes[n]
              ELSE helper'.ret = "null" /\ db' = db]_vars

\* C30: under fair delivery of the engine's events, every call of
\* putAllItems ends with its aggregate promise resolved or rejected.
C30_BatchEventuallySettles ==
    (api = "putAllItems") ~> (promise.state # "pending")

\* C31: when the put of item i >= 2 throws inside putAllItems (the puts of
\* items 1..i-1 were issued, the others never), the transaction is aborted,
\* the promise is rejected with the thrown error and no row of the batch is
\* ever in the store.
C31_ThrowAbortsBatch ==
    (/\ api = "putAllItems" /\ nItems >= 2
     /\ opened = 1 /\ issued >= 1 /\ issued < nItems)
        => /\ promise = Rejected("DataError")
           /\ tx.state \in {"aborting", "aborted"}
           /\ BatchKeys \cap store = {}

\* C32: once a putAllItems call's transaction has ended and its promise has
\* settled, the promise is resolved only with the transaction committed and
\* rejected only with the transaction aborted.
C32_OutcomeAgreesWithTransaction ==
    (/\ api = "putAllItems" /\ tx.state \in {"committed", "aborted"}
     /\ promise.state # "pending")
        => /\ promise.state = "resolved" => tx.state = "committed"
           /\ promise.state = "rejected" => tx.state = "aborted"

\* C33: within one putAllItems call for N >= 2 items transaction.abort() is
\* called at most once, and never on a transaction that is no longer
\* active.
C33_AbortsAtMostOnce ==
    (api = "putAllItems" /\ nItems >= 2)
        => abortCalls <= 1 /\ abortThrows = 0

\* C34: every read of a scan's stream is eventually answered: with the
\* next row, with the end of the sequence, or with an error.
C34_EveryPullIsAnswered ==
    (ScanOpen /\ scan.consumer = "reading") ~> (scan.consumer # "reading")

\* The call made an internal controller: a bridge that got as far as
\* registering its listeners, or a batch of N >= 2 items.
Coordinated ==
    \/ BridgedRequest /\ effective.made
    \/ api = "putAllItems" /\ nItems >= 2 /\ opened = 1

\* The signal the coordinator was given has aborted since the call.
ExternalAborted ==
    /\ sig.given /\ sig.aborted /\ sig.txAt # "before"
    /\ Bridged => passedSignal

\* The promise has settled, or a request or the transaction has failed.
OperationEnded ==
    \/ promise.state # "pending"
    \/ \E i \in 1..Len(reqs) : reqs[i].state = "error"
    \/ tx.error # "none"

\* C35: a coordinator's internal controller is aborted whenever its promise
\* has settled or the signal it was given has aborted, and only when the
\* operation has ended (resolved or failed) or that signal has aborted.
C35_ControllerAbortedExactlyThen ==
    Coordinated
        => /\ (promise.state # "pending" \/ ExternalAborted) => ctrl.aborted
           /\ ctrl.aborted => (OperationEnded \/ ExternalAborted)

C37_CallsAreIndependent ==
    [][\/ other' = other
       \/ UNCHANGED <<promise, tx, ctrl, lsn, itemLsn, itemPromises, scan,
                      effective, settleCalls, abortCalls, commitCalls,
                      store, staged>>]_vars

\* The second call's signal aborted and its request failed while the
\* batch of the first call was under way: the batch is still pending, its
\* transaction active, one put done and one to come.
C37_Witness ==
    /\ other.called /\ other.req = "error" /\ other.sig.aborted
    /\ other.cur.promise.state = "rejected"
    /\ other.cur.tx.state = "aborting"
    /\ api = "putAllItems" /\ nItems >= 2
    /\ promise.state = "pending" /\ tx.state = "active"
    /\ reqs[1].state = "success" /\ reqs[2].state = "pending"

====
